---- MODULE Spec2Model ----
(***************************************************************************)
(* Campaign optimization engine of Nexopeak: the optimization orchestrator *)
(* (CampaignOptimizationService), the market intelligence service and its  *)
(* cache table, and the questionnaire validator, as a state machine over   *)
(* the persisted tables.  Confidence scores are integers in hundredths     *)
(* (0.52 is 52); times are whole hours.                                    *)
(***************************************************************************)
EXTENDS Integers, Sequences, FiniteSets, TLC

VARIABLES campaigns, optimizations, market_intelligence, tasks, now, last,
          gateway_log, submissions, campaign_rows

vars == <<campaigns, optimizations, market_intelligence, tasks, now, last,
          gateway_log, submissions, campaign_rows>>

(***************************************************************************)
(* Bounds of the model.                                                    *)
(***************************************************************************)
MaxOptimizations == 3
MaxSubmissions == 2
MaxTasks == 1
MaxTicks == 1
MaxCacheRows == 2
MaxTotalCampaigns == 7
MaxTrendLen == 7
MaxConcurrentTasks == 2

(***************************************************************************)
(* Program constants.                                                      *)
(***************************************************************************)
CacheTTLHours == 24

\* the clock advances by whole TTLs
TickHours == CacheTTLHours
LaunchDelayHours == 336

NoTime == -1
None == "None"
EmptyDict == <<>>

Min(a, b) == IF a < b THEN a ELSE b

\* dict.get(key, default)
Get(d, k, default) == IF k \in DOMAIN d THEN d[k] ELSE default

(***************************************************************************)
(* The campaign and organization rows the optimizations refer to.          *)
(***************************************************************************)
CampaignIds == {"c1"}
UnknownCampaign == "c9"
UserIds == {"u1", "u2"}

\* target_locations and target_interests are held as their lengths
Campaign ==
  [c \in CampaignIds |->
     [user_id |-> "u1", org_id |-> "o1", status |-> "active",
      campaign_type |-> "video", total_budget |-> 15000,
      target_locations |-> 2, target_interests |-> 1]]

\* the columns of a campaign that applying recommendations writes to, and
\* end_date: the campaign runs from its second to its tenth day (hours)
CampaignStartDate == 24
CampaignEndDate == 240

CampaignRow ==
  [c \in CampaignIds |->
     [start_date |-> CampaignStartDate, end_date |-> CampaignEndDate,
      platform |-> "google_ads"]]

\* orgs.industry is nullable: o2 has none
Organization ==
  [o \in {"o1", "o2"} |-> [industry |-> IF o = "o1" THEN "healthcare" ELSE None]]

\* users.org_id
UserOrganization == [u \in UserIds |-> IF u = "u1" THEN "o1" ELSE "o2"]

\* an exception leaving a method, as a value
Raise(e) == [exception |-> e]
IsRaise(v) == "exception" \in DOMAIN v

(***************************************************************************)
(* The optimization table.  A row's id is its position in the sequence.    *)
(***************************************************************************)
NewOptimization(c, u) ==
  [campaign_id |-> c, org_id |-> Campaign[c].org_id, user_id |-> u,
   status |-> "pending",
   questionnaire_responses |-> EmptyDict,
   questionnaire_completed_at |-> NoTime,
   market_analysis |-> EmptyDict,
   historical_analysis |-> EmptyDict,
   timing_recommendations |-> EmptyDict,
   platform_recommendations |-> EmptyDict,
   budget_recommendations |-> EmptyDict,
   creative_recommendations |-> EmptyDict,
   audience_recommendations |-> EmptyDict,
   overall_confidence |-> NoTime,
   timing_confidence |-> NoTime,
   platform_confidence |-> NoTime,
   budget_confidence |-> NoTime,
   recommendations_applied |-> <<>>,
   applied_at |-> NoTime,
   data_sources_used |-> <<>>,
   processing_time_seconds |-> NoTime,
   created_at |-> now,
   completed_at |-> NoTime]

OptimizationIds == 1..Len(optimizations)

IdleTask == [pc |-> "idle"]

\* the (industry, geography) pairs market intelligence is asked for
CacheKeys == {"healthcare"} \X {"Canada"}

\* the pairs get_market_intelligence is called with, those of the
\* market-intelligence endpoint when no industry is given included
RequestKeys == {<<Organization[UserOrganization[u]].industry, "Canada">> : u \in UserIds}

Init ==
  /\ campaigns = CampaignIds
  /\ optimizations = <<>>
  /\ market_intelligence = <<>>
  /\ tasks = [t \in 1..MaxTasks |-> IdleTask]
  /\ now = 0
  /\ last = [op |-> "none"]
  /\ gateway_log = [k \in RequestKeys |-> NoTime]
  /\ submissions = 0
  /\ campaign_rows = CampaignRow

(***************************************************************************)
(* start_optimization(campaign_id, user_id): one query for the campaign,   *)
(* one for an optimization of the campaign (first() without ORDER BY: any  *)
(* matching row), then either the existing pending row or a new one.       *)
(***************************************************************************)
\* the campaign query without its user_id filter
CampaignExists(c, u) == c \in campaigns

CampaignOwnedBy(c, u) == c \in campaigns /\ Campaign[c].user_id = u

OptimizationsOf(c) == {i \in OptimizationIds : optimizations[i].campaign_id = c}

start_optimization(c, u) ==
  /\ IF ~CampaignOwnedBy(c, u)
     THEN /\ last' = [op |-> "start_optimization", campaign_id |-> c,
                      user_id |-> u, error |-> "Campaign not found or access denied",
                      id |-> 0, created |-> FALSE]
          /\ UNCHANGED optimizations
     ELSE \E existing \in (IF OptimizationsOf(c) = {} THEN {0} ELSE OptimizationsOf(c)) :
            IF existing /= 0 /\ optimizations[existing].status = "pending"
            THEN /\ last' = [op |-> "start_optimization", campaign_id |-> c,
                             user_id |-> u, error |-> None,
                             id |-> existing, created |-> FALSE]
                 /\ UNCHANGED optimizations
            ELSE /\ Len(optimizations) < MaxOptimizations
                 /\ optimizations' = Append(optimizations, NewOptimization(c, u))
                 /\ last' = [op |-> "start_optimization", campaign_id |-> c,
                             user_id |-> u, error |-> None,
                             id |-> Len(optimizations) + 1, created |-> TRUE]
  /\ UNCHANGED <<campaigns, market_intelligence, tasks, now, gateway_log, submissions,
                 campaign_rows>>

StartOptimization ==
  \E c \in CampaignIds \cup {UnknownCampaign}, u \in UserIds : start_optimization(c, u)

(***************************************************************************)
(* Market intelligence: static fallback tables.  Percentages and indices   *)
(* are in hundredths.                                                      *)
(***************************************************************************)
Industries == {k[1] : k \in CacheKeys}
Geographies == {k[2] : k \in CacheKeys}

\* str.lower() of the industry names used here is the identity; None has no
\* lower(): line 475 raises AttributeError
get_fallback_seasonal_data(industry) ==
  IF industry = None THEN Raise("AttributeError") ELSE
  LET pattern ==
        IF industry = "retail"
        THEN [peak_months |-> <<11, 12, 1>>, low_months |-> <<2, 3, 8>>,
              recommended_launch_months |-> <<9, 10, 11>>]
        ELSE IF industry = "technology"
        THEN [peak_months |-> <<1, 9, 10>>, low_months |-> <<6, 7, 8>>,
              recommended_launch_months |-> <<8, 9, 12>>]
        ELSE [peak_months |-> <<3, 4, 9>>, low_months |-> <<1, 7, 8>>,
              recommended_launch_months |-> <<2, 3, 8, 9>>]
  IN [peak_months |-> pattern.peak_months,
      low_months |-> pattern.low_months,
      recommended_launch_months |-> pattern.recommended_launch_months,
      seasonal_strength |-> 30,
      avoid_months |-> SubSeq(pattern.low_months, 1, 2),
      seasonal_multipliers |-> [i \in 1..12 |-> 100]]

get_fallback_consumer_data(industry) ==
  [digital_adoption |-> [rate |-> 78, growth |-> 12],
   spending_patterns |-> [online_preference |-> 65],
   demographic_preferences |-> [primary_age_group |-> "25-44"],
   platform_usage |-> [mobile |-> 68, desktop |-> 32]]

get_default_timing_insights ==
  [optimal_launch_window |-> [start_month |-> 3, end_month |-> 5, confidence |-> 70],
   avoid_periods |-> <<7, 8>>,
   economic_factors |-> [favorable |-> TRUE, risk_level |-> "low"],
   confidence_score |-> 60]

get_fallback_intelligence_data(industry, geography, time) ==
  IF IsRaise(get_fallback_seasonal_data(industry))
  THEN get_fallback_seasonal_data(industry)
  ELSE
  [economic_indicators |->
     [retail_sales |-> [trend |-> "stable", change_percentage |-> 210,
                        impact_level |-> "medium"]],
   retail_trends |-> [growth_rate |-> 180, trend_direction |-> "increasing",
                      seasonal_index |-> 100],
   seasonal_patterns |-> get_fallback_seasonal_data(industry),
   consumer_behavior |-> get_fallback_consumer_data(industry),
   timing_insights |-> get_default_timing_insights,
   data_quality |-> "fallback",
   last_updated |-> time]

(***************************************************************************)
(* The Gateway: one HTTP GET per _fetch_statcan_data call.  Whatever goes  *)
(* wrong (non-200, timeout or network error, malformed payload) the method *)
(* returns the empty list.                                                 *)
(***************************************************************************)
GatewayOutcomes == {"ok", "non_200", "timeout", "malformed"}

\* values of Gateway observations are in hundredths
SampleSeries ==
  << [date |-> "2024-01", value |-> 100], [date |-> "2024-02", value |-> 110] >>

fetch_statcan_data(outcome) == IF outcome = "ok" THEN SampleSeries ELSE <<>>

\* the slope taken from the first observation of the whole series
calculate_trend_whole_series(data) ==
  IF Len(data) < 2 THEN "insufficient_data"
  ELSE LET n == Min(6, Len(data))
           diff == data[Len(data)].value - data[1].value
       IN IF diff > n THEN "increasing"
          ELSE IF diff < -n THEN "decreasing"
          ELSE "stable"

\* slope of the last 6 observations, compared with +-0.01: with values in
\* hundredths, (last - first) / n > 0.01 is last - first > n
calculate_trend(data) ==
  IF Len(data) < 2 THEN "insufficient_data"
  ELSE LET first == IF Len(data) > 6 THEN Len(data) - 5 ELSE 1
           n == Len(data) - first + 1
           diff == data[Len(data)].value - data[first].value
       IN IF diff > n THEN "increasing"
          ELSE IF diff < -n THEN "decreasing"
          ELSE "stable"

\* the entry _get_economic_indicators stores for an indicator that has data;
\* change_percentage is kept as the pair (100 * (current - previous), previous)
IndicatorEntry(data) ==
  [data |-> data,
   trend |-> calculate_trend(data),
   latest_value |-> data[Len(data)],
   change_percentage |->
     IF Len(data) < 2 \/ data[Len(data) - 1].value = 0 THEN <<0, 1>>
     ELSE <<100 * (data[Len(data)].value - data[Len(data) - 1].value),
            data[Len(data) - 1].value>>]

key_indicators ==
  <<"retail_sales", "consumer_confidence", "employment_rate", "inflation_rate">>

(***************************************************************************)
(* The cache table market_intelligence.                                    *)
(***************************************************************************)
\* rows the query of _get_cached_intelligence matches
CachedRows(industry, geography) ==
  {i \in 1..Len(market_intelligence) :
     /\ market_intelligence[i].industry = industry
     /\ market_intelligence[i].geography = geography
     /\ market_intelligence[i].created_at > now - CacheTTLHours}

is_expired(row) ==
  IF row.expires_at = NoTime THEN FALSE ELSE now > row.expires_at

\* what a cache hit on the row returns
CachedResult(row) ==
  [economic_indicators |-> row.indicators,
   retail_trends |-> row.trends,
   seasonal_patterns |-> row.seasonal_patterns,
   market_data |-> row.market_data]

\* the values _get_cached_intelligence can return: a miss (None) or a hit with
\* its data.  first() has no ORDER BY, so any matching row may be the one read.
get_cached_intelligence(industry, geography) ==
  IF CachedRows(industry, geography) = {} THEN {[hit |-> FALSE]}
  ELSE {IF is_expired(market_intelligence[i]) THEN [hit |-> FALSE]
        ELSE [hit |-> TRUE, data |-> CachedResult(market_intelligence[i])] :
          i \in CachedRows(industry, geography)}

\* the row _cache_intelligence_data adds
CacheRow(industry, geography, data) ==
  [industry |-> industry, geography |-> geography,
   market_data |-> data,
   indicators |-> Get(data, "economic_indicators", EmptyDict),
   trends |-> Get(data, "retail_trends", EmptyDict),
   seasonal_patterns |-> Get(data, "seasonal_patterns", EmptyDict),
   created_at |-> now,
   expires_at |-> now + CacheTTLHours,
   confidence_score |-> 85]

(***************************************************************************)
(* Questionnaire: the question tables and validate_responses.  A response  *)
(* value is a record: t is its Python type, s its string, n its number, l  *)
(* its list of strings.                                                    *)
(***************************************************************************)
Str(x) == [t |-> "str", s |-> x, n |-> 0, l |-> <<>>]
Num(x) == [t |-> "int", s |-> "", n |-> x, l |-> <<>>]
List(x) == [t |-> "list", s |-> "", n |-> 0, l |-> x]
\* a bool is an int for isinstance: True is 1, False is 0
Bool(x) == [t |-> "bool", s |-> "", n |-> IF x THEN 1 ELSE 0, l |-> <<>>]
\* float('nan'), which json.loads reads from the token NaN: a float for
\* isinstance, and every comparison with it is False
NaN == [t |-> "nan", s |-> "", n |-> 0, l |-> <<>>]

Choice(key, category, order_index, required, options, multiple_select) ==
  [key |-> key, type |-> "multiple_choice", category |-> category,
   order_index |-> order_index, required |-> required, options |-> options,
   multiple_select |-> multiple_select, scale_min |-> 1, scale_max |-> 5]

Scale(key, category, order_index, required, lo, hi) ==
  [key |-> key, type |-> "scale", category |-> category,
   order_index |-> order_index, required |-> required, options |-> {},
   multiple_select |-> FALSE, scale_min |-> lo, scale_max |-> hi]

get_base_questions ==
  << Choice("campaign_urgency", "business_context", 1, TRUE,
            {"immediate", "soon", "flexible", "strategic"}, FALSE),
     Choice("budget_flexibility", "business_context", 2, TRUE,
            {"fixed", "limited", "moderate", "high"}, FALSE),
     Choice("primary_success_metric", "business_context", 3, TRUE,
            {"brand_awareness", "website_traffic", "lead_generation",
             "sales_revenue", "customer_acquisition", "engagement"}, FALSE),
     Choice("target_market_maturity", "market_context", 4, TRUE,
            {"emerging", "growing", "mature", "declining"}, FALSE),
     Scale("competitive_intensity", "market_context", 5, TRUE, 1, 5),
     Choice("previous_campaign_performance", "campaign_history", 6, FALSE,
            {"excellent", "good", "mixed", "poor", "no_previous"}, FALSE),
     Choice("seasonal_business_patterns", "business_context", 7, TRUE,
            {"strong_seasonal", "moderate_seasonal", "minimal_seasonal",
             "counter_seasonal"}, FALSE) >>

get_industry_specific_questions(industry) ==
  IF industry = None THEN <<>>
  ELSE IF industry = "retail" THEN
    << Choice("retail_peak_season", "industry_context", 20, TRUE,
              {"holiday_season", "back_to_school", "spring_summer", "winter",
               "year_round"}, TRUE),
       Choice("retail_customer_journey", "industry_context", 21, TRUE,
              {"impulse", "short", "medium", "long"}, FALSE) >>
  ELSE IF industry = "technology" THEN
    << Choice("tech_product_complexity", "industry_context", 20, TRUE,
              {"simple", "moderate", "complex", "enterprise"}, FALSE),
       Choice("tech_target_segment", "industry_context", 21, TRUE,
              {"consumer", "smb", "enterprise", "developer"}, FALSE) >>
  ELSE IF industry = "healthcare" THEN
    << Scale("healthcare_regulation_impact", "industry_context", 20, TRUE, 1, 5) >>
  ELSE IF industry = "finance" THEN
    << Choice("finance_trust_factors", "industry_context", 20, TRUE,
              {"security", "reputation", "certifications", "testimonials",
               "transparency"}, TRUE) >>
  ELSE <<>>

get_campaign_type_questions(campaign_type) ==
  IF campaign_type = "search" THEN
    << Choice("search_intent_focus", "campaign_specifics", 30, TRUE,
              {"informational", "navigational", "commercial", "transactional"},
              FALSE) >>
  ELSE IF campaign_type = "display" THEN
    << Choice("display_targeting_approach", "campaign_specifics", 30, TRUE,
              {"contextual", "behavioral", "demographic", "remarketing"}, FALSE) >>
  ELSE IF campaign_type = "video" THEN
    << Choice("video_content_style", "campaign_specifics", 30, FALSE,
              {"educational", "testimonial", "product_demo", "brand_story",
               "entertainment"}, FALSE) >>
  ELSE <<>>

get_conditional_questions(campaign) ==
  (IF campaign.total_budget > 10000
   THEN << Choice("large_budget_allocation", "budget_strategy", 40, TRUE,
                  {"aggressive_start", "steady_pace", "test_and_scale",
                   "seasonal_focus"}, FALSE) >>
   ELSE <<>>)
  \o (IF campaign.target_locations > 1
      THEN << Choice("geographic_priorities", "targeting_strategy", 41, TRUE,
                     {"equal_priority", "major_markets", "test_markets",
                      "regional_rollout"}, FALSE) >>
      ELSE <<>>)
  \o (IF campaign.target_interests > 0
      THEN << Choice("audience_expansion", "targeting_strategy", 42, TRUE,
                     {"strict_targeting", "similar_interests",
                      "lookalike_audiences", "broad_targeting"}, FALSE) >>
      ELSE <<>>)

\* position of a category in string order
CategoryRank(category) ==
  CASE category = "budget_strategy" -> 1
    [] category = "business_context" -> 2
    [] category = "campaign_history" -> 3
    [] category = "campaign_specifics" -> 4
    [] category = "industry_context" -> 5
    [] category = "market_context" -> 6
    [] category = "targeting_strategy" -> 7

QuestionBefore(a, b) ==
  \/ CategoryRank(a.category) < CategoryRank(b.category)
  \/ /\ a.category = b.category
     /\ a.order_index < b.order_index

\* q goes after every question that is not after it
RECURSIVE InsertQuestion(_, _)
InsertQuestion(sorted, q) ==
  IF sorted = <<>> THEN <<q>>
  ELSE IF QuestionBefore(q, Head(sorted)) THEN <<q>> \o sorted
  ELSE <<Head(sorted)>> \o InsertQuestion(Tail(sorted), q)

\* list.sort(key=(category, order_index)): stable
RECURSIVE SortQuestions(_)
SortQuestions(qs) ==
  IF qs = <<>> THEN <<>>
  ELSE InsertQuestion(SortQuestions(SubSeq(qs, 1, Len(qs) - 1)), qs[Len(qs)])

\* the grouping with categories[category] = [key] in place of append
group_questions_by_category_last_only(questions) ==
  [category \in {questions[i].category : i \in DOMAIN questions} |->
     LET OfCategory(q) == q.category = category
         members == SelectSeq(questions, OfCategory)
     IN <<members[Len(members)].key>>]

\* categories: each category to the keys of its questions, in list order
group_questions_by_category(questions) ==
  [category \in {questions[i].category : i \in DOMAIN questions} |->
     LET OfCategory(q) == q.category = category
         members == SelectSeq(questions, OfCategory)
     IN [i \in 1..Len(members) |-> members[i].key]]

\* the questionnaire without the extend of line 42
get_questionnaire_without_conditional(campaign, industry) ==
  LET questions == SortQuestions(get_base_questions
                     \o get_industry_specific_questions(industry)
                     \o get_campaign_type_questions(campaign.campaign_type))
  IN [total_questions |-> Len(questions),
      categories |-> group_questions_by_category(questions),
      questions |-> questions]

\* get_questionnaire_for_campaign for a campaign row that exists and the
\* industry of its organization
get_questionnaire_for_campaign(campaign, industry) ==
  LET questions == SortQuestions(get_base_questions
                     \o get_industry_specific_questions(industry)
                     \o get_campaign_type_questions(campaign.campaign_type)
                     \o get_conditional_questions(campaign))
  IN [total_questions |-> Len(questions),
      categories |-> group_questions_by_category(questions),
      questions |-> questions]

\* the questions of get_questionnaire_for_campaign; the campaign exists
QuestionsFor(c) ==
  get_questionnaire_for_campaign(Campaign[c],
                                 Organization[Campaign[c].org_id].industry).questions

\* None, or the kind of error _validate_response_format reports
validate_response_format(question, value) ==
  IF question.type = "multiple_choice"
  THEN IF question.multiple_select
       THEN IF value.t /= "list" THEN "expects_list"
            ELSE IF \E i \in 1..Len(value.l) : value.l[i] \notin question.options
                 THEN "invalid_option" ELSE None
       ELSE IF value.t /= "str" \/ value.s \notin question.options
            THEN "invalid_option" ELSE None
  ELSE IF question.type = "scale"
  THEN IF value.t \notin {"int", "float", "bool", "nan"}
          \/ (value.t /= "nan"
              /\ (value.n < question.scale_min \/ value.n > question.scale_max))
       THEN "expects_number_in_range" ELSE None
  ELSE IF question.type = "text"
  THEN IF value.t /= "str" THEN "expects_text" ELSE None
  ELSE IF question.type = "boolean"
  THEN IF value.t /= "bool" THEN "expects_boolean" ELSE None
  ELSE None

\* errors are held as a set; warnings are always empty
validate_responses(responses, c) ==
  IF c \notin campaigns
  THEN [valid |-> FALSE, errors |-> {[kind |-> "validation_failed", key |-> None]}]
  ELSE LET questions == QuestionsFor(c)
           missing == {[kind |-> "required_missing", key |-> questions[i].key] :
                         i \in {j \in 1..Len(questions) :
                                  /\ questions[j].required
                                  /\ questions[j].key \notin DOMAIN responses}}
           \* next(q for q in questions if q["key"] == key): the first match
           format == {[kind |-> validate_response_format(questions[i], responses[questions[i].key]),
                       key |-> questions[i].key] :
                        i \in {j \in 1..Len(questions) :
                                 /\ questions[j].key \in DOMAIN responses
                                 /\ \A k \in 1..(j - 1) : questions[k].key /= questions[j].key
                                 /\ validate_response_format(questions[j],
                                        responses[questions[j].key]) /= None}}
       IN [valid |-> missing \cup format = {}, errors |-> missing \cup format]

(***************************************************************************)
(* Response sets submitted in the model.                                   *)
(***************************************************************************)
ValidResponses ==
  [campaign_urgency |-> Str("flexible"),
   budget_flexibility |-> Str("moderate"),
   primary_success_metric |-> Str("lead_generation"),
   target_market_maturity |-> Str("growing"),
   competitive_intensity |-> Num(3),
   seasonal_business_patterns |-> Str("minimal_seasonal"),
   healthcare_regulation_impact |-> Num(2),
   large_budget_allocation |-> Str("steady_pace"),
   geographic_priorities |-> Str("major_markets"),
   audience_expansion |-> Str("similar_interests")]

\* campaign_urgency, a required question, is not answered
MissingKeyResponses ==
  [k \in DOMAIN ValidResponses \ {"campaign_urgency"} |-> ValidResponses[k]]

\* 6 on the 1-5 scale of competitive_intensity
BadScaleResponses == [ValidResponses EXCEPT !.competitive_intensity = Num(6)]

ResponseSets == {ValidResponses, MissingKeyResponses}

(***************************************************************************)
(* The analyses of _perform_comprehensive_analysis.  Each runs inside its  *)
(* own try/except and returns its default bundle when its body raises.     *)
(***************************************************************************)
get_default_historical_analysis ==
  [total_campaigns |-> 0,
   best_performing_type |-> "search",
   best_performing_platform |-> "google_ads",
   seasonal_patterns |-> [peak_months |-> <<3, 4, 9>>, low_months |-> <<1, 7, 8>>],
   budget_efficiency |-> [avg_cpc |-> 250, avg_conversion_rate |-> 35],
   audience_insights |-> [primary_age_group |-> "25-44"],
   success_factors |-> <<"clear_messaging", "targeted_audience", "optimal_timing">>]

get_default_timing_recommendations(time) ==
  [immediate_launch |-> FALSE,
   optimal_launch_date |-> time + LaunchDelayHours,
   alternative_dates |-> <<>>,
   avoid_periods |-> <<7, 8>>,
   seasonal_multiplier |-> 100,
   confidence_level |-> 60]

get_default_platform_recommendations ==
  [primary_platform |-> "google_ads",
   secondary_platforms |-> <<"facebook", "instagram">>,
   platform_scores |-> EmptyDict,
   channel_mix |-> [search |-> 60, social |-> 40],
   budget_allocation |-> [google_ads |-> 60, facebook |-> 25, instagram |-> 15]]

get_default_budget_recommendations ==
  [recommended_total_budget |-> 5000,
   recommended_daily_budget |-> 167,
   budget_pacing |-> "even",
   platform_allocation |-> [google_ads |-> 60, facebook |-> 40]]

get_default_creative_recommendations ==
  [messaging_optimization |-> [focus |-> "value_proposition", tone |-> "professional"],
   creative_formats |-> <<"image", "video">>,
   cta_optimization |-> [primary |-> "Learn More", secondary |-> "Get Started"]]

get_default_audience_recommendations ==
  [demographic_refinement |-> [age_range |-> <<25, 54>>,
                               interests |-> <<"business", "technology">>],
   behavioral_targeting |-> <<"website_visitors", "engaged_users">>,
   lookalike_audiences |-> <<"customer_list", "website_visitors">>]

\* campaigns of the organization that are completed or active (all rows here
\* are younger than a year)
HistoricalCampaigns(org) ==
  {c \in campaigns : Campaign[c].org_id = org /\ Campaign[c].status \in {"completed", "active"}}

\* with no such campaign the default is returned at line 213; with some, line
\* 219 calls self._extract_campaign_performance, which the class does not
\* define: AttributeError, caught at line 235
analyze_historical_performance(optimization) ==
  IF HistoricalCampaigns(optimization.org_id) = {}
  THEN get_default_historical_analysis
  ELSE get_default_historical_analysis

\* the except branch returning {} instead of the default bundle
analyze_optimal_timing_empty(optimization, market_data, time) == EmptyDict

\* line 261 calls self._should_launch_immediately, which the class does not
\* define: AttributeError, caught at line 287
analyze_optimal_timing(optimization, market_data, time) ==
  get_default_timing_recommendations(time)

\* the except branch returning {} instead of the default bundle
analyze_optimal_platforms_empty(optimization, market_data) == EmptyDict

\* the scores and the ranking are computed, then line 335 calls
\* self._recommend_channel_mix, which the class does not define:
\* AttributeError, caught at line 348
analyze_optimal_platforms(optimization, market_data) ==
  get_default_platform_recommendations

\* line 372 calls self._calculate_optimal_total_budget, not defined: caught at 398
analyze_budget_optimization(optimization, market_data) ==
  get_default_budget_recommendations

\* line 413 calls self._optimize_messaging, not defined: caught at 433
analyze_creative_optimization(optimization) ==
  get_default_creative_recommendations

\* line 451 calls self._refine_demographic_targeting, not defined: caught at 471
analyze_audience_optimization(optimization, market_data) ==
  get_default_audience_recommendations

\* the analyses whose body raises, and so return their default bundle
AnalysesRaising == {"timing", "platform", "budget", "creative", "audience"}

\* round(x, 2) of x given in thousandths, ties to even
RoundToHundredths(thousandths) ==
  LET q == thousandths \div 10
      r == thousandths % 10
  IN IF r > 5 \/ (r = 5 /\ q % 2 = 1) THEN q + 1 ELSE q

calculate_confidence_scores(market_data, historical_analysis, timing_analysis, platform_analysis) ==
  LET data_quality_score ==
        IF Get(market_data, "data_quality", None) = "high" THEN 90
        ELSE IF Get(market_data, "data_quality", None) = "fallback" THEN 50
        ELSE 70
      historical_confidence ==
        Min(90, Get(historical_analysis, "total_campaigns", 0) * 10 + 30)
      timing_confidence == Get(timing_analysis, "confidence_level", 60)
      platform_confidence ==
        IF Get(platform_analysis, "platform_scores", EmptyDict) /= EmptyDict
        THEN 80 ELSE 60
      budget_confidence == 70
      overall_confidence ==
        data_quality_score * 3 + historical_confidence * 2
        + timing_confidence * 2 + platform_confidence * 2 + budget_confidence * 1
  IN [overall |-> RoundToHundredths(overall_confidence),
      timing |-> timing_confidence,
      platform |-> platform_confidence,
      budget |-> budget_confidence,
      data_quality |-> data_quality_score]

\* process_questionnaire stores what this returns
validate_questionnaire_responses(responses) == responses

\* the analysis committing nothing
CompletedOptimizationNotCommitted(optimization, market_data, start_time) ==
  optimization

\* the commit skipped when another call has completed the row
CompletedOptimizationOnce(optimization, market_data, start_time) ==
  IF optimization.status = "completed" THEN optimization
  ELSE [optimization EXCEPT
          !.market_analysis = market_data,
          !.historical_analysis = get_default_historical_analysis,
          !.timing_recommendations = get_default_timing_recommendations(now),
          !.platform_recommendations = get_default_platform_recommendations,
          !.budget_recommendations = get_default_budget_recommendations,
          !.creative_recommendations = get_default_creative_recommendations,
          !.audience_recommendations = get_default_audience_recommendations,
          !.overall_confidence = 52,
          !.timing_confidence = 60,
          !.platform_confidence = 60,
          !.budget_confidence = 70,
          !.status = "completed",
          !.completed_at = now,
          !.processing_time_seconds = now - start_time,
          !.data_sources_used = <<"market_intelligence", "historical_data", "benchmarks">>]

\* lines 141-181: the row as the successful analysis commits it
CompletedOptimization(optimization, market_data, start_time) ==
  LET historical_analysis == analyze_historical_performance(optimization)
      timing_analysis == analyze_optimal_timing(optimization, market_data, now)
      platform_analysis == analyze_optimal_platforms(optimization, market_data)
      confidence_scores ==
        calculate_confidence_scores(market_data, historical_analysis,
                                    timing_analysis, platform_analysis)
  IN [optimization EXCEPT
        !.market_analysis = market_data,
        !.historical_analysis = historical_analysis,
        !.timing_recommendations = timing_analysis,
        !.platform_recommendations = platform_analysis,
        !.budget_recommendations = analyze_budget_optimization(optimization, market_data),
        !.creative_recommendations = analyze_creative_optimization(optimization),
        !.audience_recommendations = analyze_audience_optimization(optimization, market_data),
        !.overall_confidence = confidence_scores.overall,
        !.timing_confidence = confidence_scores.timing,
        !.platform_confidence = confidence_scores.platform,
        !.budget_confidence = confidence_scores.budget,
        !.status = "completed",
        !.completed_at = now,
        !.processing_time_seconds = now - start_time,
        !.data_sources_used = <<"market_intelligence", "historical_data", "benchmarks">>]

\* lines 194-198: the except branch commits the status alone
FailedOptimization(optimization) == [optimization EXCEPT !.status = "failed"]

(***************************************************************************)
(* process_questionnaire and get_market_intelligence run as coroutines: a  *)
(* task is suspended while one of its Gateway requests is in flight.       *)
(* start_time is when the task's get_market_intelligence call started;     *)
(* prior tells whether, at that time, an earlier call for the same key had *)
(* returned after going to the Gateway less than a TTL before (gateway_log *)
(* keeps the time of the last such return per key).                        *)
(***************************************************************************)
TaskIds == DOMAIN tasks

\* process_questionnaire, lines 100-114; submissions counts the calls that
\* found their optimization
process_questionnaire(t, oid, responses) ==
  /\ tasks[t].pc = "idle"
  /\ IF oid \notin OptimizationIds
     THEN /\ last' = [op |-> "process_questionnaire", id |-> oid,
                      error |-> "Optimization not found", status |-> None,
                      raised |-> {}]
          /\ UNCHANGED <<optimizations, tasks, submissions>>
     ELSE /\ submissions < MaxSubmissions
          /\ submissions' = submissions + 1
          /\ optimizations' =
               [optimizations EXCEPT ![oid] =
                  [@ EXCEPT !.questionnaire_responses =
                                validate_questionnaire_responses(responses),
                            !.questionnaire_completed_at = now,
                            !.status = "analyzing"]]
          /\ tasks' = [tasks EXCEPT ![t] =
                         [pc |-> "analysis", kind |-> "process_questionnaire",
                          oid |-> oid]]
          /\ last' = [op |-> "process_questionnaire", id |-> oid,
                      error |-> None, status |-> "analyzing", raised |-> {}]
  /\ UNCHANGED <<campaigns, market_intelligence, now, gateway_log,
                 campaign_rows>>

\* the task while the Gateway requests of its get_market_intelligence call
\* are in flight
FetchingTask(t, kind, oid, industry, geography, start_time) ==
  [pc |-> "fetching", kind |-> kind, oid |-> oid,
   industry |-> industry, geography |-> geography,
   start_time |-> start_time,
   prior |-> /\ gateway_log[<<industry, geography>>] /= NoTime
             /\ now < gateway_log[<<industry, geography>>] + CacheTTLHours]

\* _perform_comprehensive_analysis from line 141 to its return, for the task
\* of optimization oid; source tells where get_market_intelligence took the
\* market data: the cache, or the Gateway with every request answered (live)
\* or not (degraded).  The commit of line 183 is an UPDATE of the attributes
\* set at lines 164-181: the other columns of the row, questionnaire_responses
\* included, stay as the last commit left them.  last records the status the
\* row had when the commit overwrote it, and the responses the analyses read
\* (line 246 and its likes) from the session's copy of the row.
FinishAnalysis(t, oid, market_data, start_time, source) ==
  /\ optimizations' =
       [optimizations EXCEPT ![oid] =
          CompletedOptimization(optimizations[oid], market_data, start_time)]
  /\ tasks' = [tasks EXCEPT ![t] = IdleTask]
  /\ last' = [op |-> "process_questionnaire", id |-> oid,
              error |-> None, status |-> "completed", raised |-> AnalysesRaising,
              source |-> source,
              overwrote |-> optimizations[oid].status,
              responses |-> IF tasks[t].pc = "fetching" THEN tasks[t].responses
                            ELSE optimizations[oid].questionnaire_responses]

\* _perform_comprehensive_analysis, lines 129-139, and get_market_intelligence
\* up to its first Gateway request.  A deleted campaign makes line 133 raise.
\* The commit of line 114 expired the session's copy of the row; line 132
\* loads it again, and the task keeps the responses it loaded.
perform_comprehensive_analysis(t) ==
  /\ tasks[t].pc = "analysis"
  /\ LET oid == tasks[t].oid
         optimization == optimizations[oid]
     IN IF optimization.campaign_id \notin campaigns
        THEN /\ optimizations' =
                  [optimizations EXCEPT ![oid] = FailedOptimization(optimization)]
             /\ tasks' = [tasks EXCEPT ![t] = IdleTask]
             /\ last' = [op |-> "process_questionnaire", id |-> oid,
                         error |-> "AttributeError", status |-> "failed",
                         raised |-> {}]
        ELSE LET organization == Organization[Campaign[optimization.campaign_id].org_id]
                 industry == IF organization.industry = None THEN "general"
                             ELSE organization.industry
             IN \E cached \in get_cached_intelligence(industry, "Canada") :
                  IF cached.hit
                  THEN FinishAnalysis(t, oid, cached.data, now, "cache")
                  ELSE /\ tasks' = [tasks EXCEPT ![t] =
                                      FetchingTask(t, "process_questionnaire", oid,
                                                   industry, "Canada", now)
                                      @@ [responses |->
                                            optimization.questionnaire_responses]]
                       /\ UNCHANGED <<optimizations, last>>
  /\ UNCHANGED <<campaigns, market_intelligence, now, gateway_log, submissions,
                 campaign_rows>>

\* get_market_intelligence called on its own (the market-intelligence endpoint)
get_market_intelligence(t, industry, geography) ==
  /\ tasks[t].pc = "idle"
  /\ \E cached \in get_cached_intelligence(industry, geography) :
       IF cached.hit
       THEN /\ last' = [op |-> "get_market_intelligence", industry |-> industry,
                        geography |-> geography, result |-> cached.data,
                        gw |-> 0, cache_hit |-> TRUE, outcomes |-> <<>>]
            /\ UNCHANGED tasks
       ELSE /\ tasks' = [tasks EXCEPT ![t] =
                           FetchingTask(t, "get_market_intelligence", 0,
                                        industry, geography, now)]
            /\ UNCHANGED last
  /\ UNCHANGED <<campaigns, optimizations, market_intelligence, now, gateway_log, submissions,
                 campaign_rows>>

\* what _get_economic_indicators returns when the Gateway answers the request
\* for indicator i with outcomes[i]
get_economic_indicators(outcomes) ==
  [name \in {key_indicators[i] : i \in {j \in 1..Len(key_indicators) :
                                          fetch_statcan_data(outcomes[j]) /= <<>>}} |->
     IndicatorEntry(fetch_statcan_data(
       outcomes[CHOOSE i \in 1..Len(key_indicators) : key_indicators[i] = name]))]

\* _get_retail_trends, lines 196-217, given what its Gateway request returned:
\* the AttributeError of line 205 or 210, raised again from the except branch
\* at line 217; with no industry line 200 raises before the request is sent
get_retail_trends(industry, retail_data) == Raise("AttributeError")

\* the Gateway requests get_market_intelligence sends on a cache miss: one per
\* indicator, then one for the retail series
GatewayRequests == Len(key_indicators) + 1

\* the try body of get_market_intelligence after the cache check, lines 82-109:
\* what it returns, or the exception that leaves it.  Line 86 yields the
\* indicators, line 90 raises.
GatherIntelligence(industry, outcomes) ==
  LET economic_data == get_economic_indicators(outcomes)
  IN get_retail_trends(industry, fetch_statcan_data(outcomes[GatewayRequests]))

\* get_market_intelligence, lines 82-113, once the Gateway has answered
\* request i with outcomes[i].  Line 86 yields the economic indicators.  Line
\* 90, _get_retail_trends, raises whatever the Gateway returned: with no data
\* line 205 calls self._get_fallback_retail_data, with data line 210 calls
\* self._calculate_seasonal_index; the class defines neither, and the except
\* branch (line 217) calls _get_fallback_retail_data again.
\* get_market_intelligence catches the AttributeError at line 111 and returns
\* the fallback data; line 106, the cache write, is not reached.
MarketIntelligenceOnMiss(industry, geography, outcomes) ==
  LET gathered == GatherIntelligence(industry, outcomes)
  IN IF IsRaise(gathered)
     THEN get_fallback_intelligence_data(industry, geography, now)
     ELSE gathered

\* the Gateway answers and the task runs to its end
gateway_responses(t, outcomes) ==
  /\ tasks[t].pc = "fetching"
  /\ LET market_data == MarketIntelligenceOnMiss(tasks[t].industry,
                                                 tasks[t].geography, outcomes)
     IN /\ gateway_log' = [gateway_log EXCEPT
                             ![<<tasks[t].industry, tasks[t].geography>>] = now]
        /\ IF tasks[t].kind = "process_questionnaire"
           THEN FinishAnalysis(t, tasks[t].oid, market_data, tasks[t].start_time,
                               IF \A i \in DOMAIN outcomes : outcomes[i] = "ok"
                               THEN "live" ELSE "degraded")
           ELSE /\ last' = [op |-> "get_market_intelligence",
                            industry |-> tasks[t].industry,
                            geography |-> tasks[t].geography,
                            result |-> market_data,
                            gw |-> IF tasks[t].industry = None
                                   THEN Len(key_indicators)
                                   ELSE GatewayRequests,
                            cache_hit |-> FALSE,
                            outcomes |-> outcomes]
                /\ tasks' = [tasks EXCEPT ![t] = IdleTask]
                /\ UNCHANGED optimizations
  /\ UNCHANGED <<campaigns, market_intelligence, now, submissions,
                 campaign_rows>>

\* CampaignService.delete_campaign: the campaign row goes, the optimizations
\* that refer to it stay
delete_campaign(c) ==
  /\ c \in campaigns
  /\ campaigns' = campaigns \ {c}
  /\ last' = [op |-> "delete_campaign", campaign_id |-> c]
  /\ UNCHANGED <<optimizations, market_intelligence, tasks, now, gateway_log, submissions,
                 campaign_rows>>

\* what line 106 would hand to _cache_intelligence_data: the five sections of
\* lines 83-103.  The indicators are those of the given outcomes; the consumer
\* section and the timing insights are the values their except branches
\* return (lines 319 and 336), the other two the fallback tables.
IntelligenceData(industry, outcomes) ==
  [economic_indicators |-> get_economic_indicators(outcomes),
   retail_trends |-> [growth_rate |-> 180, trend_direction |-> "increasing",
                      seasonal_index |-> 100],
   seasonal_patterns |-> get_fallback_seasonal_data(industry),
   consumer_behavior |-> get_fallback_consumer_data(industry),
   timing_insights |-> get_default_timing_insights]

\* _cache_intelligence_data called with a composite result
cache_intelligence_data(industry, geography, data) ==
  /\ Len(market_intelligence) < MaxCacheRows
  /\ market_intelligence' =
       Append(market_intelligence, CacheRow(industry, geography, data))
  /\ last' = [op |-> "cache_intelligence_data", industry |-> industry,
              geography |-> geography, data |-> data]
  /\ UNCHANGED <<campaigns, optimizations, tasks, now, gateway_log, submissions,
                 campaign_rows>>

CacheIntelligenceData ==
  \E k \in CacheKeys,
     outcomes \in {[i \in 1..GatewayRequests |-> o] : o \in {"ok", "timeout"}} :
    cache_intelligence_data(k[1], k[2], IntelligenceData(k[1], outcomes))

ProcessQuestionnaire ==
  \E t \in TaskIds, oid \in 1..MaxOptimizations, responses \in ResponseSets :
    process_questionnaire(t, oid, responses)

PerformComprehensiveAnalysis == \E t \in TaskIds : perform_comprehensive_analysis(t)

GetMarketIntelligence ==
  \E t \in TaskIds, k \in CacheKeys : get_market_intelligence(t, k[1], k[2])

\* the market-intelligence endpoint called without an industry by user u: the
\* industry passed on is the industry column of the user's organization
GetMarketIntelligenceSummary ==
  \E t \in TaskIds, u \in UserIds :
    get_market_intelligence(t, Organization[UserOrganization[u]].industry, "Canada")

\* the outcome vectors tried: every request with the same outcome, the
\* indicators answered and the retail request not, the reverse, and a vector
\* in which the indicators differ
OutcomeVectors ==
  {[i \in 1..GatewayRequests |-> o] : o \in GatewayOutcomes}
  \cup {<<"ok", "ok", "ok", "ok", "timeout">>,
        <<"non_200", "non_200", "non_200", "non_200", "ok">>,
        <<"ok", "non_200", "timeout", "malformed", "ok">>}

GatewayResponses ==
  \E t \in TaskIds, outcomes \in OutcomeVectors :
    gateway_responses(t, outcomes)

DeleteCampaign == \E c \in CampaignIds : delete_campaign(c)

Tick ==
  /\ now < MaxTicks * TickHours
  /\ now' = now + TickHours
  /\ UNCHANGED <<campaigns, optimizations, market_intelligence, tasks, last,
                 gateway_log, submissions, campaign_rows>>

Next ==
  \/ StartOptimization
  \/ ProcessQuestionnaire
  \/ PerformComprehensiveAnalysis
  \/ GetMarketIntelligence
  \/ GatewayResponses
  \/ DeleteCampaign
  \/ Tick

Spec == Init /\ [][Next]_vars

(***************************************************************************)
(* The methods that only compute, each applied once to arguments drawn     *)
(* from small sets; last holds the arguments and what the method returned. *)
(***************************************************************************)
\* confidence_level values of a timing analysis, in hundredths
ConfidenceLevels == {-50, 0, 45, 60, 100, 150}

TimingAnalyses ==
  {[confidence_level |-> x] : x \in ConfidenceLevels} \cup {EmptyDict}

MarketDataQualities ==
  {[data_quality |-> "high"], [data_quality |-> "fallback"], EmptyDict}

PlatformAnalyses ==
  {get_default_platform_recommendations,
   [platform_scores |-> [google_ads |-> [total_score |-> 80]]]}

CalculateConfidenceScores ==
  /\ last.op = "none"
  /\ \E market_data \in MarketDataQualities, n \in 0..MaxTotalCampaigns,
        timing_analysis \in TimingAnalyses, platform_analysis \in PlatformAnalyses :
       last' = [op |-> "calculate_confidence_scores",
                market_data |-> market_data,
                historical_analysis |-> [total_campaigns |-> n],
                timing_analysis |-> timing_analysis,
                platform_analysis |-> platform_analysis,
                result |-> calculate_confidence_scores(
                             market_data, [total_campaigns |-> n],
                             timing_analysis, platform_analysis)]
  /\ UNCHANGED <<campaigns, optimizations, market_intelligence, tasks, now,
                 gateway_log, submissions, campaign_rows>>

\* the platforms in the order of self.platform_benchmarks
Platforms == <<"google_ads", "facebook", "instagram", "linkedin">>

\* per platform, the sum over its ad types of conversion_rate (in
\* thousandths) and of cpc (in cents)
platform_benchmarks ==
  [google_ads |-> [conversion_rate |-> 65, cpc |-> 365],
   facebook |-> [conversion_rate |-> 58, cpc |-> 255],
   instagram |-> [conversion_rate |-> 70, cpc |-> 330],
   linkedin |-> [conversion_rate |-> 150, cpc |-> 1070]]

\* scores are fractions <<numerator, denominator>> with denominator > 0
FracLess(a, b) == a[1] * b[2] < b[1] * a[2]
Max(a, b) == IF a > b THEN a ELSE b

\* base_score 50 times the multiplier (in tenths) of the objective for the
\* platform; 1.0 for an objective or platform not in the table
objective_score(platform, objective) ==
  LET objective_multipliers ==
        [awareness |-> [google_ads |-> 8, facebook |-> 12, instagram |-> 13, linkedin |-> 7],
         traffic |-> [google_ads |-> 13, facebook |-> 10, instagram |-> 9, linkedin |-> 8],
         leads |-> [google_ads |-> 12, facebook |-> 11, instagram |-> 8, linkedin |-> 14],
         sales |-> [google_ads |-> 14, facebook |-> 10, instagram |-> 9, linkedin |-> 9]]
  IN 5 * Get(Get(objective_multipliers, objective, EmptyDict), platform, 10)

\* overlap of the age ranges over the longer range, times the strength of the
\* platform (in hundredths), times 100
calculate_demographic_fit_score(platform, demographics) ==
  LET platform_demographics ==
        [google_ads |-> [age_range |-> <<25, 65>>, strength |-> 90],
         facebook |-> [age_range |-> <<30, 60>>, strength |-> 80],
         instagram |-> [age_range |-> <<18, 45>>, strength |-> 90],
         linkedin |-> [age_range |-> <<25, 55>>, strength |-> 85]]
      platform_data == platform_demographics[platform]
      target_age == Get(demographics, "age_range", <<25, 45>>)
      platform_age == platform_data.age_range
      overlap == Max(0, Min(target_age[2], platform_age[2])
                        - Max(target_age[1], platform_age[1]))
      max_range == Max(target_age[2] - target_age[1],
                       platform_age[2] - platform_age[1])
  IN IF max_range > 0 THEN <<overlap * platform_data.strength, max_range>>
     ELSE <<50 * platform_data.strength, 100>>

\* min(100, 10 * 1000 * mean conversion rate / mean cpc)
calculate_efficiency_score(platform) ==
  LET b == platform_benchmarks[platform]
      efficiency == <<1000 * b.conversion_rate, b.cpc>>
  IN IF FracLess(<<100, 1>>, efficiency) THEN <<100, 1>> ELSE efficiency

\* total_score = 0.4 * objective + 0.3 * demographic + 0.3 * efficiency
calculate_platform_score(platform, demographics, objective) ==
  LET d == calculate_demographic_fit_score(platform, demographics)
      e == calculate_efficiency_score(platform)
  IN [total_score |->
        <<4 * objective_score(platform, objective) * d[2] * e[2]
          + 3 * d[1] * e[2] + 3 * e[1] * d[2],
          10 * d[2] * e[2]>>]

\* sorted(..., key=total_score, reverse=True) is stable: a platform goes
\* after every platform ranked so far whose score is not lower
RECURSIVE InsertPlatform(_, _, _)
InsertPlatform(ranked, platform, scores) ==
  IF ranked = <<>> THEN <<platform>>
  ELSE IF FracLess(scores[Head(ranked)].total_score, scores[platform].total_score)
  THEN <<platform>> \o ranked
  ELSE <<Head(ranked)>> \o InsertPlatform(Tail(ranked), platform, scores)

\* ranked_platforms of lines 310-328
RankPlatforms(demographics, objective) ==
  LET scores == [pf \in {Platforms[i] : i \in DOMAIN Platforms} |->
                   calculate_platform_score(pf, demographics, objective)]
  IN InsertPlatform(InsertPlatform(InsertPlatform(<<Platforms[1]>>,
       Platforms[2], scores), Platforms[3], scores), Platforms[4], scores)

Objectives == {"awareness", "traffic", "leads", "sales", "engagement"}

TargetDemographics ==
  {[age_range |-> a] : a \in {<<18, 45>>, <<25, 45>>, <<30, 60>>, <<50, 65>>, <<40, 40>>}}
  \cup {EmptyDict}

AnalyzeOptimalPlatforms ==
  /\ last.op = "none"
  /\ \E objective \in Objectives, demographics \in TargetDemographics,
        market_data \in MarketDataQualities :
       last' = [op |-> "analyze_optimal_platforms",
                primary_objective |-> objective,
                target_demographics |-> demographics,
                result |-> analyze_optimal_platforms(
                             [campaign |-> [primary_objective |-> objective,
                                            target_demographics |-> demographics],
                              questionnaire_responses |-> ValidResponses],
                             market_data)]
  /\ UNCHANGED <<campaigns, optimizations, market_intelligence, tasks, now,
                 gateway_log, submissions, campaign_rows>>

\* a series is a sequence of observations [date |-> <<year, month>>, value];
\* strptime(date, "%Y-%m").month is the second component
MonthOf(point) == point.date[2]

\* the keys of monthly_averages in insertion order: months by first appearance
RECURSIVE MonthsSeen(_)
MonthsSeen(data) ==
  IF data = <<>> THEN <<>>
  ELSE LET before == MonthsSeen(SubSeq(data, 1, Len(data) - 1))
           m == MonthOf(data[Len(data)])
       IN IF \E i \in DOMAIN before : before[i] = m THEN before
          ELSE Append(before, m)

RECURSIVE SumValues(_)
SumValues(points) ==
  IF points = <<>> THEN 0 ELSE points[1].value + SumValues(Tail(points))

\* fractions are kept in lowest terms
RECURSIVE GCD(_, _)
GCD(a, b) == IF b = 0 THEN a ELSE GCD(b, a % b)

Frac(n, d) ==
  LET g == GCD(IF n < 0 THEN -n ELSE n, d)
  IN IF g = 0 THEN <<n, d>> ELSE <<n \div g, d \div g>>

\* month_stats[month].average: sum of the month's values over their count
MonthAverage(data, month) ==
  LET values == SelectSeq(data, LAMBDA point : MonthOf(point) = month)
  IN Frac(SumValues(values), Len(values))

\* sum of the monthly averages, as a fraction
RECURSIVE SumAverages(_, _)
SumAverages(data, months) ==
  IF months = <<>> THEN <<0, 1>>
  ELSE LET a == MonthAverage(data, months[1])
           rest == SumAverages(data, Tail(months))
       IN Frac(a[1] * rest[2] + rest[1] * a[2], a[2] * rest[2])

\* sorted(seasonal_indices.items(), key=index, reverse=True): stable
RECURSIVE InsertMonth(_, _, _)
InsertMonth(sorted, month, indices) ==
  IF sorted = <<>> THEN <<month>>
  ELSE IF FracLess(indices[Head(sorted)], indices[month])
  THEN <<month>> \o sorted
  ELSE <<Head(sorted)>> \o InsertMonth(Tail(sorted), month, indices)

RECURSIVE SortMonths(_, _)
SortMonths(months, indices) ==
  IF months = <<>> THEN <<>>
  ELSE InsertMonth(SortMonths(SubSeq(months, 1, Len(months) - 1), indices),
                   months[Len(months)], indices)

\* sequence[:n] and sequence[-n:]
FirstN(sequence, n) == SubSeq(sequence, 1, Min(n, Len(sequence)))
LastN(sequence, n) == SubSeq(sequence, Max(1, Len(sequence) - n + 1), Len(sequence))

\* _perform_seasonal_decomposition for values >= 0.  Line 280 divides by the
\* number of months and line 285 by the overall average: with no month, or
\* with an overall average of 0, ZeroDivisionError, and the except branch
\* (line 301) calls self._get_default_seasonal_analysis, which the class does
\* not define: AttributeError leaves the method.
perform_seasonal_decomposition(data) ==
  LET months == MonthsSeen(data)
      total == SumAverages(data, months)
      overall_avg == Frac(total[1], total[2] * Len(months))
  IN IF months = <<>> \/ overall_avg[1] = 0 THEN Raise("AttributeError")
     ELSE LET seasonal_indices ==
                [m \in {months[i] : i \in DOMAIN months} |->
                   Frac(MonthAverage(data, m)[1] * overall_avg[2],
                        MonthAverage(data, m)[2] * overall_avg[1])]
              sorted_months == SortMonths(months, seasonal_indices)
              highest == seasonal_indices[sorted_months[1]]
              lowest == seasonal_indices[sorted_months[Len(sorted_months)]]
          IN [peak_months |-> FirstN(sorted_months, 3),
              low_months |-> LastN(sorted_months, 3),
              seasonal_strength |->
                Frac(highest[1] * lowest[2] - lowest[1] * highest[2],
                     highest[2] * lowest[2]),
              recommended_months |-> FirstN(sorted_months, 6),
              avoid_months |-> LastN(sorted_months, 2),
              multipliers |-> seasonal_indices]

\* one observation per month of the given years, value MonthValue[month]
YearSeries(years, MonthValue) ==
  [i \in 1..(12 * Len(years)) |->
     [date |-> <<years[((i - 1) \div 12) + 1], ((i - 1) % 12) + 1>>,
      value |-> MonthValue[((i - 1) % 12) + 1]]]

Baseline == 100

\* December at twice the baseline, July at half of it
InjectedPattern ==
  [m \in 1..12 |-> IF m = 12 THEN 2 * Baseline
                   ELSE IF m = 7 THEN Baseline \div 2 ELSE Baseline]

RisingPattern == [m \in 1..12 |-> Baseline + 10 * m]

SeriesInputs ==
  {<<>>,
   YearSeries(<<2023, 2024>>, InjectedPattern),
   YearSeries(<<2024>>, RisingPattern),
   YearSeries(<<2024>>, [m \in 1..12 |-> Baseline]),
   YearSeries(<<2024>>, [m \in 1..12 |-> 0]),
   YearSeries(<<2023>>, RisingPattern) \o YearSeries(<<2024>>, InjectedPattern),
   SubSeq(YearSeries(<<2024>>, RisingPattern), 1, 5),
   <<[date |-> <<2023, 3>>, value |-> 90], [date |-> <<2024, 3>>, value |-> 110]>>,
   <<[date |-> <<2024, 3>>, value |-> 0], [date |-> <<2024, 4>>, value |-> 0]>>,
   <<[date |-> <<2024, 5>>, value |-> 70]>>}

PerformSeasonalDecomposition ==
  /\ last.op = "none"
  /\ \E data \in SeriesInputs :
       last' = [op |-> "perform_seasonal_decomposition", data |-> data,
                result |-> perform_seasonal_decomposition(data)]
  /\ UNCHANGED <<campaigns, optimizations, market_intelligence, tasks, now,
                 gateway_log, submissions, campaign_rows>>

\* values of observations, in hundredths
TrendValues == {0, 6, 7}

TrendSeries ==
  UNION {{[i \in 1..n |-> [value |-> f[i]]] : f \in [1..n -> TrendValues]} :
           n \in 0..MaxTrendLen}

CalculateTrend ==
  /\ last.op = "none"
  /\ \E data \in TrendSeries :
       last' = [op |-> "calculate_trend", data |-> data,
                result |-> calculate_trend(data)]
  /\ UNCHANGED <<campaigns, optimizations, market_intelligence, tasks, now,
                 gateway_log, submissions, campaign_rows>>

\* answers tried in place of an answer of ValidResponses
AnswerValues ==
  {Str("flexible"), Str("steady_pace"), Str("bogus"), Num(0), Num(1), Num(5),
   Num(6), Bool(TRUE), Bool(FALSE), NaN, List(<<"flexible">>)}

\* ValidResponses, and ValidResponses with one key dropped, one answer
\* replaced, or both
ValidationInputs ==
  {ValidResponses}
  \cup {[k \in DOMAIN ValidResponses \ {dropped} |-> ValidResponses[k]] :
          dropped \in DOMAIN ValidResponses}
  \cup {[ValidResponses EXCEPT ![key] = v] :
          key \in DOMAIN ValidResponses, v \in AnswerValues}
  \cup {[k \in DOMAIN ValidResponses \ {"campaign_urgency"} |->
           IF k = "competitive_intensity" THEN v ELSE ValidResponses[k]] :
          v \in AnswerValues}
  \cup {[k \in DOMAIN ValidResponses \cup {"unknown_key"} |->
           IF k = "unknown_key" THEN Str("anything") ELSE ValidResponses[k]]}

ValidateResponses ==
  /\ last.op = "none"
  /\ \E responses \in ValidationInputs, c \in CampaignIds \cup {UnknownCampaign} :
       last' = [op |-> "validate_responses", campaign_id |-> c,
                responses |-> responses,
                result |-> validate_responses(responses, c)]
  /\ UNCHANGED <<campaigns, optimizations, market_intelligence, tasks, now,
                 gateway_log, submissions, campaign_rows>>

\* organization industries: the four with questions of their own, one
\* without, and no industry
QuestionnaireIndustries == {"retail", "technology", "healthcare", "finance", "education", None}

\* campaign types of CampaignBase.validate_campaign_type
CampaignTypes == {"search", "display", "video", "shopping", "local"}

\* total_budget: 0 stands for a campaign without one (None is as falsy)
TotalBudgets == {0, 9999, 10000, 10001, 15000}

GetQuestionnaireForCampaign ==
  /\ last.op = "none"
  /\ \E industry \in QuestionnaireIndustries, campaign_type \in CampaignTypes,
        total_budget \in TotalBudgets, target_locations \in 0..2,
        target_interests \in 0..1 :
       LET campaign == [campaign_type |-> campaign_type,
                        total_budget |-> total_budget,
                        target_locations |-> target_locations,
                        target_interests |-> target_interests]
       IN last' = [op |-> "get_questionnaire_for_campaign",
                   campaign |-> campaign, industry |-> industry,
                   result |-> get_questionnaire_for_campaign(campaign, industry)]
  /\ UNCHANGED <<campaigns, optimizations, market_intelligence, tasks, now,
                 gateway_log, submissions, campaign_rows>>

NextFunctions ==
  \/ GetQuestionnaireForCampaign
  \/ CalculateConfidenceScores
  \/ AnalyzeOptimalPlatforms
  \/ PerformSeasonalDecomposition
  \/ CalculateTrend
  \/ ValidateResponses

FunctionSpec == Init /\ [][NextFunctions]_vars

\* the cache methods of MarketIntelligenceService driven directly
NextCache ==
  \/ CacheIntelligenceData
  \/ GetMarketIntelligenceSummary
  \/ GatewayResponses
  \/ Tick

CacheSpec == Init /\ [][NextCache]_vars

(***************************************************************************)
(* Concurrent requests: the background tasks of the questionnaire endpoint *)
(* and calls of the market-intelligence endpoint, each with a session of   *)
(* its own, MaxConcurrentTasks of them in flight at a time.                *)
(***************************************************************************)
InitConcurrent ==
  /\ campaigns = CampaignIds
  /\ optimizations = <<>>
  /\ market_intelligence = <<>>
  /\ tasks = [t \in 1..MaxConcurrentTasks |-> IdleTask]
  /\ now = 0
  /\ last = [op |-> "none"]
  /\ gateway_log = [k \in RequestKeys |-> NoTime]
  /\ submissions = 0
  /\ campaign_rows = CampaignRow

NextConcurrent ==
  \/ StartOptimization
  \/ ProcessQuestionnaire
  \/ PerformComprehensiveAnalysis
  \/ GatewayResponses
  \/ DeleteCampaign
  \/ Tick

ConcurrentSpec == InitConcurrent /\ [][NextConcurrent]_vars

\* concurrent calls of get_market_intelligence and of the cache write
NextConcurrentCache ==
  \/ GetMarketIntelligence
  \/ GatewayResponses
  \/ CacheIntelligenceData
  \/ Tick

ConcurrentCacheSpec == InitConcurrent /\ [][NextConcurrentCache]_vars

\* the event loop runs every task that can run, and every Gateway request
\* returns or times out (the httpx client has a timeout)
NextFair ==
  \/ StartOptimization
  \/ ProcessQuestionnaire
  \/ PerformComprehensiveAnalysis
  \/ GatewayResponses
  \/ DeleteCampaign

FairSpec ==
  /\ InitConcurrent
  /\ [][NextFair]_vars
  /\ WF_vars(PerformComprehensiveAnalysis)
  /\ WF_vars(GatewayResponses)

(***************************************************************************)
(* Reading and applying the recommendations of an optimization.            *)
(***************************************************************************)
\* CampaignOptimization.get_recommendation_summary
get_recommendation_summary(optimization) ==
  [timing |-> optimization.timing_recommendations,
   platforms |-> optimization.platform_recommendations,
   budget |-> optimization.budget_recommendations,
   creative |-> optimization.creative_recommendations,
   audience |-> optimization.audience_recommendations,
   confidence_scores |-> [overall |-> optimization.overall_confidence,
                          timing |-> optimization.timing_confidence,
                          platform |-> optimization.platform_confidence,
                          budget |-> optimization.budget_confidence]]

\* the summary returned whatever the status
get_recommendations_any_status(oid) ==
  /\ last' = [op |-> "get_recommendations", id |-> oid,
              error |-> IF oid \in OptimizationIds THEN None
                        ELSE "Optimization not found",
              result |-> IF oid \in OptimizationIds
                         THEN get_recommendation_summary(optimizations[oid])
                         ELSE EmptyDict]
  /\ UNCHANGED <<campaigns, optimizations, market_intelligence, tasks, now,
                 gateway_log, submissions, campaign_rows>>

get_recommendations(oid) ==
  /\ last' = [op |-> "get_recommendations", id |-> oid,
              error |-> IF oid \in OptimizationIds THEN None
                        ELSE "Optimization not found",
              result |-> IF oid \notin OptimizationIds THEN EmptyDict
                         ELSE IF optimizations[oid].status /= "completed"
                         THEN [status |-> optimizations[oid].status,
                               message |-> "Analysis not yet completed"]
                         ELSE get_recommendation_summary(optimizations[oid])]
  /\ UNCHANGED <<campaigns, optimizations, market_intelligence, tasks, now,
                 gateway_log, submissions, campaign_rows>>

\* the selections tried: none, the timing bundle, the platform bundle, both,
\* as get_recommendations returned them
SelectedRecommendations(optimization) ==
  {EmptyDict,
   [timing |-> optimization.timing_recommendations],
   [platforms |-> optimization.platform_recommendations],
   [timing |-> optimization.timing_recommendations,
    platforms |-> optimization.platform_recommendations]}

\* lines 335-348 on the campaign row; datetime.fromisoformat gives back the
\* datetime whose isoformat() the timing bundle holds
ApplyToCampaign(row, selected) ==
  LET timed == IF "timing" \in DOMAIN selected
                  /\ "optimal_launch_date" \in DOMAIN selected.timing
               THEN [row EXCEPT !.start_date = selected.timing.optimal_launch_date]
               ELSE row
  IN IF "platforms" \in DOMAIN selected
        /\ "primary_platform" \in DOMAIN selected.platforms
     THEN [timed EXCEPT !.platform = selected.platforms.primary_platform]
     ELSE timed

\* the endpoint without the status check of lines 324-328
apply_recommendations_any_status(oid, u, selected) ==
  /\ IF oid \notin OptimizationIds \/ optimizations[oid].user_id /= u
     THEN /\ last' = [op |-> "apply_recommendations", id |-> oid, selected |-> selected, user_id |-> u,
                      error |-> "Optimization not found"]
          /\ UNCHANGED <<optimizations, campaign_rows>>
     ELSE LET campaign_id == optimizations[oid].campaign_id
        IN /\ campaign_id \in campaigns
           /\ campaign_rows' = [campaign_rows EXCEPT ![campaign_id] =
                                  ApplyToCampaign(@, selected)]
           /\ optimizations' = [optimizations EXCEPT ![oid] =
                                  [@ EXCEPT !.recommendations_applied = selected,
                                            !.applied_at = now]]
           /\ last' = [op |-> "apply_recommendations", id |-> oid, selected |-> selected,
                       user_id |-> u, error |-> None]
  /\ UNCHANGED <<campaigns, market_intelligence, tasks, now, gateway_log,
                 submissions>>

\* apply_optimization_recommendations.  With the campaign row gone, campaign
\* is None: a selection that writes to it raises at line 340 or 347 before
\* the commit; any other selection is committed and line 378 raises.
apply_optimization_recommendations(oid, u, selected) ==
  /\ IF oid \notin OptimizationIds \/ optimizations[oid].user_id /= u
     THEN /\ last' = [op |-> "apply_recommendations", id |-> oid, selected |-> selected, user_id |-> u,
                      error |-> "Optimization not found"]
          /\ UNCHANGED <<optimizations, campaign_rows>>
     ELSE IF optimizations[oid].status /= "completed"
     THEN /\ last' = [op |-> "apply_recommendations", id |-> oid, selected |-> selected, user_id |-> u,
                      error |-> "Optimization not completed yet"]
          /\ UNCHANGED <<optimizations, campaign_rows>>
     ELSE LET campaign_id == optimizations[oid].campaign_id
        IN IF campaign_id \notin campaigns /\ selected /= EmptyDict
           THEN /\ last' = [op |-> "apply_recommendations", id |-> oid, selected |-> selected,
                            user_id |-> u, error |-> "AttributeError"]
                /\ UNCHANGED <<optimizations, campaign_rows>>
           ELSE /\ campaign_rows' =
                     IF campaign_id \in campaigns
                     THEN [campaign_rows EXCEPT ![campaign_id] =
                             ApplyToCampaign(@, selected)]
                     ELSE campaign_rows
                /\ optimizations' = [optimizations EXCEPT ![oid] =
                                       [@ EXCEPT !.recommendations_applied = selected,
                                                 !.applied_at = now]]
                /\ last' = [op |-> "apply_recommendations", id |-> oid, selected |-> selected,
                            user_id |-> u,
                            error |-> IF campaign_id \in campaigns THEN None
                                      ELSE "AttributeError"]
  /\ UNCHANGED <<campaigns, market_intelligence, tasks, now, gateway_log,
                 submissions>>

GetRecommendations == \E oid \in 1..MaxOptimizations : get_recommendations(oid)

ApplyOptimizationRecommendations ==
  \E oid \in 1..MaxOptimizations, u \in UserIds :
    \E selected \in (IF oid \in OptimizationIds
                     THEN SelectedRecommendations(optimizations[oid])
                     ELSE {EmptyDict}) :
      apply_optimization_recommendations(oid, u, selected)

NextApply ==
  \/ StartOptimization
  \/ ProcessQuestionnaire
  \/ PerformComprehensiveAnalysis
  \/ GatewayResponses
  \/ DeleteCampaign
  \/ GetRecommendations
  \/ ApplyOptimizationRecommendations

ApplySpec == Init /\ [][NextApply]_vars
(***************************************************************************)
(* Properties of the optimization lifecycle.                               *)
(***************************************************************************)
Terminal(status) == status \in {"completed", "failed"}

RecommendationFields ==
  {"timing_recommendations", "platform_recommendations",
   "budget_recommendations", "creative_recommendations",
   "audience_recommendations"}

ConfidenceFields ==
  {"overall_confidence", "timing_confidence", "platform_confidence",
   "budget_confidence"}

\* C1: every change of an optimization's status is pending->analyzing,
\* analyzing->completed or analyzing->failed; a completed or failed record
\* never changes status again.
C1_StatusTransitions ==
  [][\A i \in OptimizationIds :
       optimizations'[i].status /= optimizations[i].status
       => <<optimizations[i].status, optimizations'[i].status>>
            \in {<<"pending", "analyzing">>, <<"analyzing", "completed">>,
                 <<"analyzing", "failed">>}]_vars

\* C2: two start_optimization calls by the owner for one campaign, with no
\* process_questionnaire call in between, return the same optimization id,
\* and the second creates no record.
C2_IdempotentStart ==
  [][(/\ last.op = "start_optimization" /\ last.error = None
      /\ last'.op = "start_optimization" /\ last'.error = None
      /\ last'.campaign_id = last.campaign_id)
     => (last'.id = last.id /\ optimizations' = optimizations)]_vars

\* C3: a failed optimization has its five recommendation bundles empty and
\* its four confidence scores unset.
C3_FailedHasNoRecommendations ==
  \A i \in OptimizationIds :
    optimizations[i].status = "failed"
    => /\ \A f \in RecommendationFields : optimizations[i][f] = EmptyDict
       /\ \A f \in ConfidenceFields : optimizations[i][f] = NoTime

\* C4 as stated: when one of the five analyses raised during the
\* comprehensive analysis, process_questionnaire ends with the optimization
\* failed and an exception raised to its caller.
C4_AnalysisErrorFails ==
  (last.op = "process_questionnaire" /\ last.raised /= {})
  => (last.status = "failed" /\ last.error /= None)

\* C4 amended: when any of the five analyses raised, the analysis returned
\* its default bundle, the optimization ends completed with those bundles
\* persisted, and no exception reaches the caller of process_questionnaire.
C4_AnalysisErrorAbsorbed ==
  [][(last' /= last /\ last'.op = "process_questionnaire" /\ last'.raised /= {})
     => /\ last'.error = None
        /\ last'.status = "completed"
        /\ LET o == optimizations'[last'.id]
           IN /\ o.status = "completed"
              /\ "timing" \in last'.raised
                 => o.timing_recommendations = get_default_timing_recommendations(now)
              /\ "platform" \in last'.raised
                 => o.platform_recommendations = get_default_platform_recommendations
              /\ "budget" \in last'.raised
                 => o.budget_recommendations = get_default_budget_recommendations
              /\ "creative" \in last'.raised
                 => o.creative_recommendations = get_default_creative_recommendations
              /\ "audience" \in last'.raised
                 => o.audience_recommendations = get_default_audience_recommendations]_vars

C4_Witness ==
  /\ last.op = "process_questionnaire"
  /\ last.raised /= {}
  /\ last.status = "completed"
  /\ optimizations[last.id].status = "completed"

\* C5: a completed optimization has completed_at and processing_time_seconds
\* set, data_sources_used non-empty, its four confidence scores set and its
\* five recommendation bundles non-empty.
C5_CompletedIsFullyPersisted ==
  \A i \in OptimizationIds :
    optimizations[i].status = "completed"
    => /\ optimizations[i].completed_at /= NoTime
       /\ optimizations[i].processing_time_seconds /= NoTime
       /\ optimizations[i].data_sources_used /= <<>>
       /\ \A f \in ConfidenceFields : optimizations[i][f] /= NoTime
       /\ \A f \in RecommendationFields : optimizations[i][f] /= EmptyDict

C5_Witness ==
  \E i \in OptimizationIds :
    /\ optimizations[i].status = "completed"
    /\ optimizations[i].questionnaire_responses /= EmptyDict

\* C6: once an optimization is completed or failed, no step changes its
\* questionnaire_responses, recommendation bundles, confidence scores or
\* completed_at.
C6_TerminalIsImmutable ==
  [][\A i \in OptimizationIds :
       Terminal(optimizations[i].status)
       => \A f \in RecommendationFields \cup ConfidenceFields
                   \cup {"questionnaire_responses", "completed_at"} :
            optimizations'[i][f] = optimizations[i][f]]_vars

\* C7: start_optimization for a campaign that does not exist or is not the
\* caller's signals 'Campaign not found or access denied' and leaves the
\* optimization records as they were.
C7_NotFoundCreatesNothing ==
  [][(/\ last' /= last
      /\ last'.op = "start_optimization"
      /\ \/ last'.campaign_id \notin campaigns
         \/ Campaign[last'.campaign_id].user_id /= last'.user_id)
     => /\ last'.error = "Campaign not found or access denied"
        /\ optimizations' = optimizations]_vars

C7_Witness ==
  /\ last.op = "start_optimization"
  /\ last.campaign_id \in campaigns
  /\ Campaign[last.campaign_id].user_id /= last.user_id
  /\ last.error = "Campaign not found or access denied"
  /\ Len(optimizations) > 0

\* C8: process_questionnaire stores no response set that validate_responses
\* rejects for the optimization's campaign, and does not move the
\* optimization to analyzing with one.
C8_OnlyValidatedResponsesStored ==
  [][\A i \in OptimizationIds :
       (/\ optimizations[i].campaign_id \in campaigns
        /\ \/ optimizations'[i].questionnaire_responses
                /= optimizations[i].questionnaire_responses
           \/ /\ optimizations'[i].status = "analyzing"
              /\ optimizations[i].status /= "analyzing")
       => validate_responses(optimizations'[i].questionnaire_responses,
                             optimizations[i].campaign_id).valid]_vars

(***************************************************************************)
(* Properties of the market intelligence cache.                            *)
(***************************************************************************)
\* C9: a get_market_intelligence call that starts less than a TTL after a
\* call for the same (industry, geography) returned from the Gateway sends
\* no Gateway request.
C9_NoGatewayWithinTTL ==
  \A t \in TaskIds : tasks[t].pc = "fetching" => ~tasks[t].prior

\* C10: on a cache hit get_market_intelligence returns the composite result
\* that was cached, unchanged.
C10_CacheHitReturnsCachedComposite ==
  (last.op = "get_market_intelligence" /\ last.cache_hit)
  => \E i \in 1..Len(market_intelligence) :
       /\ market_intelligence[i].industry = last.industry
       /\ market_intelligence[i].geography = last.geography
       /\ last.result = market_intelligence[i].market_data

(***************************************************************************)
(* Properties of get_market_intelligence on a cache miss.                  *)
(***************************************************************************)
\* C11: whatever the Gateway answered and whatever the cache held,
\* get_market_intelligence returns a market-intelligence result and does not
\* raise to its caller.
C11_NeverRaises ==
  last.op = "get_market_intelligence" => ~IsRaise(last.result)

\* C12: when the fetch of some data group failed during a cache miss, the
\* result has data_quality = "fallback" and every economic indicator whose
\* fetch succeeded is in the result with its live data.
C12_FallbackPerGroup ==
  (/\ last.op = "get_market_intelligence"
   /\ ~last.cache_hit
   /\ ~IsRaise(last.result)
   /\ \E i \in DOMAIN last.outcomes : last.outcomes[i] /= "ok")
  => /\ Get(last.result, "data_quality", None) = "fallback"
     /\ LET live == get_economic_indicators(last.outcomes)
        IN \A name \in DOMAIN live :
             /\ name \in DOMAIN last.result.economic_indicators
             /\ last.result.economic_indicators[name] = live[name]

(***************************************************************************)
(* Properties of the confidence scores.                                    *)
(***************************************************************************)
\* C13: each score _calculate_confidence_scores returns (overall, timing,
\* platform, budget) lies in [0,1], whatever the confidence_level of the
\* timing analysis.
C13_ScoresInUnitInterval ==
  last.op = "calculate_confidence_scores"
  => \A f \in {"overall", "timing", "platform", "budget"} :
       last.result[f] \in 0..100

\* C14: the overall confidence of a completed optimization is
\* 0.3*data_quality + 0.2*historical + 0.2*timing + 0.2*platform + 0.1*budget
\* rounded to two decimals, with historical = min(0.9, 0.1*(number of prior
\* campaigns of the organization) + 0.3), and lies between the smallest and
\* the largest component.
C14_OverallIsWeightedSum ==
  (last.op = "process_questionnaire" /\ last.status = "completed")
  => LET o == optimizations[last.id]
         data_quality ==
           calculate_confidence_scores(o.market_analysis, o.historical_analysis,
                                       o.timing_recommendations,
                                       o.platform_recommendations).data_quality
         historical == Min(90, 10 * Cardinality(HistoricalCampaigns(o.org_id)) + 30)
         components == {data_quality, historical, o.timing_confidence,
                        o.platform_confidence, o.budget_confidence}
         weighted == 3 * data_quality + 2 * historical + 2 * o.timing_confidence
                     + 2 * o.platform_confidence + o.budget_confidence
     IN /\ 10 * o.overall_confidence - weighted \in -5..5
        /\ \E c \in components : c <= o.overall_confidence
        /\ \E c \in components : o.overall_confidence <= c

\* C15: the data_quality component of the confidence aggregation is 0.9 when
\* the market data came from a live Gateway fetch, 0.5 when it is the
\* fallback result and 0.7 otherwise.
C15_DataQualityBySource ==
  (last.op = "process_questionnaire" /\ last.status = "completed")
  => LET o == optimizations[last.id]
         data_quality ==
           calculate_confidence_scores(o.market_analysis, o.historical_analysis,
                                       o.timing_recommendations,
                                       o.platform_recommendations).data_quality
     IN data_quality = (IF last.source = "live" THEN 90
                        ELSE IF Get(o.market_analysis, "data_quality", None) = "fallback"
                        THEN 50 ELSE 70)

(***************************************************************************)
(* Properties of the platform recommendation.                              *)
(***************************************************************************)
\* C16: the platform recommendation ranks the four platforms by total score,
\* descending and stable: primary_platform is the first of the ranking and
\* secondary_platforms are its second and third.
C16_PlatformsRankedByScore ==
  last.op = "analyze_optimal_platforms"
  => LET ranked == RankPlatforms(last.target_demographics, last.primary_objective)
     IN /\ last.result.primary_platform = ranked[1]
        /\ last.result.secondary_platforms = <<ranked[2], ranked[3]>>

(***************************************************************************)
(* Properties of the seasonal decomposition.                               *)
(***************************************************************************)
PopulatedMonths(data) == {MonthOf(data[i]) : i \in DOMAIN data}

SeqToSet(sequence) == {sequence[i] : i \in DOMAIN sequence}

\* months is a set of n months of series data none of which has a lower
\* monthly average than a month outside it
IsTop(data, months, n) ==
  /\ Cardinality(months) = n
  /\ months \subseteq PopulatedMonths(data)
  /\ \A m \in months : \A other \in PopulatedMonths(data) \ months :
       ~FracLess(MonthAverage(data, m), MonthAverage(data, other))

IsBottom(data, months, n) ==
  /\ Cardinality(months) = n
  /\ months \subseteq PopulatedMonths(data)
  /\ \A m \in months : \A other \in PopulatedMonths(data) \ months :
       ~FracLess(MonthAverage(data, other), MonthAverage(data, m))

\* C17: for a series with all twelve months populated the decomposition
\* returns the 3 months of highest index as peak_months, the 3 lowest as
\* low_months (disjoint from the peaks), the 6 highest as recommended, the 2
\* lowest as avoid_months and max index - min index as seasonal_strength;
\* with December at 2x and July at 0.5x the baseline, December is a peak
\* month and July a low month.
C17_DecompositionOfFullYear ==
  (last.op = "perform_seasonal_decomposition"
   /\ PopulatedMonths(last.data) = 1..12)
  => /\ ~IsRaise(last.result)
     /\ IsTop(last.data, SeqToSet(last.result.peak_months), 3)
     /\ IsBottom(last.data, SeqToSet(last.result.low_months), 3)
     /\ SeqToSet(last.result.peak_months) \cap SeqToSet(last.result.low_months) = {}
     /\ IsTop(last.data, SeqToSet(last.result.recommended_months), 6)
     /\ IsBottom(last.data, SeqToSet(last.result.avoid_months), 2)
     /\ \E hi \in 1..12, lo \in 1..12 :
          /\ \A m \in 1..12 :
               /\ ~FracLess(last.result.multipliers[hi], last.result.multipliers[m])
               /\ ~FracLess(last.result.multipliers[m], last.result.multipliers[lo])
          /\ LET h == last.result.multipliers[hi]
                 l == last.result.multipliers[lo]
             IN last.result.seasonal_strength[1] * (h[2] * l[2])
                = (h[1] * l[2] - l[1] * h[2]) * last.result.seasonal_strength[2]
     /\ last.data = YearSeries(<<2023, 2024>>, InjectedPattern)
        => /\ 12 \in SeqToSet(last.result.peak_months)
           /\ 7 \in SeqToSet(last.result.low_months)

\* C18: for every observation list the decomposition returns without
\* raising, and with fewer than 2 populated months what it returns is the
\* static default decomposition.
C18_DecompositionNeverRaises ==
  last.op = "perform_seasonal_decomposition"
  => /\ ~IsRaise(last.result)
     /\ Cardinality(PopulatedMonths(last.data)) < 2
        => /\ last.result.peak_months = get_fallback_seasonal_data("default").peak_months
           /\ last.result.low_months = get_fallback_seasonal_data("default").low_months

(***************************************************************************)
(* Properties of the trend direction.                                      *)
(***************************************************************************)
\* C19: _calculate_trend returns insufficient_data exactly for a series of
\* fewer than 2 points; otherwise, with slope = (last - first of the last 6
\* observations) / their number, increasing if slope > 0.01, decreasing if
\* slope < -0.01, stable otherwise; observations older than the last 6 do
\* not change the result.
C19_TrendOfLastSix ==
  last.op = "calculate_trend"
  => LET data == last.data
         window == LastN(data, 6)
         k == Len(window)
     IN /\ (last.result = "insufficient_data") <=> (Len(data) < 2)
        /\ Len(data) >= 2
           => LET rise == window[k].value - window[1].value
              IN last.result = (IF rise > k THEN "increasing"
                                ELSE IF rise < -k THEN "decreasing"
                                ELSE "stable")
        /\ \A older \in TrendValues :
             Len(data) > 6
             => calculate_trend([data EXCEPT ![1] = [value |-> older]]) = last.result

\* a series longer than 6 whose last 6 observations rise by exactly 0.01 per
\* observation, while the whole series falls
C19_Witness ==
  /\ last.op = "calculate_trend"
  /\ Len(last.data) > 6
  /\ last.data[Len(last.data)].value - last.data[Len(last.data) - 5].value = 6
  /\ last.data[1].value > last.data[Len(last.data)].value
  /\ last.result = "stable"

(***************************************************************************)
(* Properties of validate_responses.                                       *)
(***************************************************************************)
\* the answer has the type of the question: an option (or a list of options
\* when multiple_select), a number within the scale, a string, a bool
MatchesType(question, value) ==
  IF question.type = "multiple_choice"
  THEN IF question.multiple_select
       THEN value.t = "list" /\ \A i \in 1..Len(value.l) : value.l[i] \in question.options
       ELSE value.t = "str" /\ value.s \in question.options
  ELSE IF question.type = "scale"
  THEN /\ value.t \in {"int", "float", "bool"}
       /\ question.scale_min <= value.n
       /\ value.n <= question.scale_max
  ELSE IF question.type = "text" THEN value.t = "str"
  ELSE IF question.type = "boolean" THEN value.t = "bool"
  ELSE TRUE

\* C20: validate_responses returns valid = true with no errors exactly when
\* every required question of the campaign's questionnaire is answered and
\* every answer to a known question matches its type; otherwise valid =
\* false and the errors name each missing required key and each offending
\* key.
C20_ValidExactlyWhenWellFormed ==
  (last.op = "validate_responses" /\ last.campaign_id \in campaigns)
  => LET questions == QuestionsFor(last.campaign_id)
         missing == {questions[i].key : i \in {j \in DOMAIN questions :
                       /\ questions[j].required
                       /\ questions[j].key \notin DOMAIN last.responses}}
         offending == {questions[i].key : i \in {j \in DOMAIN questions :
                         /\ questions[j].key \in DOMAIN last.responses
                         /\ ~MatchesType(questions[j],
                                         last.responses[questions[j].key])}}
     IN /\ last.result.valid <=> (missing \cup offending = {})
        /\ last.result.valid => last.result.errors = {}
        /\ {e.key : e \in last.result.errors} = missing \cup offending

(***************************************************************************)
(* Properties of get_questionnaire_for_campaign.                           *)
(***************************************************************************)
QuestionKeys(questions) == {questions[i].key : i \in DOMAIN questions}

\* C21: the questionnaire contains large_budget_allocation iff total_budget
\* is above 10000, geographic_priorities iff there is more than one target
\* location, audience_expansion iff there is a target interest; and
\* total_questions is 7 base questions plus the industry questions plus the
\* campaign-type questions plus the number of conditions that hold.
C21_ConditionalQuestions ==
  last.op = "get_questionnaire_for_campaign"
  => LET keys == QuestionKeys(last.result.questions)
         large == last.campaign.total_budget > 10000
         multi == last.campaign.target_locations > 1
         interests == last.campaign.target_interests > 0
         Count(b) == IF b THEN 1 ELSE 0
     IN /\ ("large_budget_allocation" \in keys) <=> large
        /\ ("geographic_priorities" \in keys) <=> multi
        /\ ("audience_expansion" \in keys) <=> interests
        /\ last.result.total_questions =
             7 + Len(get_industry_specific_questions(last.industry))
               + Len(get_campaign_type_questions(last.campaign.campaign_type))
               + Count(large) + Count(multi) + Count(interests)

\* a retail search campaign with total_budget 15000, two locations and one
\* interest: three entries beyond the base, industry and type questions
C21_Witness ==
  /\ last.op = "get_questionnaire_for_campaign"
  /\ last.campaign.total_budget = 15000
  /\ last.campaign.target_locations = 2
  /\ last.campaign.target_interests = 1
  /\ last.industry = "retail"
  /\ last.campaign.campaign_type = "search"
  /\ last.result.total_questions = 7 + 2 + 1 + 3

\* C22: the question keys of one questionnaire are pairwise distinct, and
\* the categories grouping lists every key in exactly one category, once.
C22_KeysDistinctAndGrouped ==
  last.op = "get_questionnaire_for_campaign"
  => LET questions == last.result.questions
         categories == last.result.categories
         Listings(key) == {<<category, i>> \in
                             UNION {{category} \X DOMAIN categories[category] :
                                      category \in DOMAIN categories} :
                             categories[category][i] = key}
     IN /\ \A i, j \in DOMAIN questions :
             questions[i].key = questions[j].key => i = j
        /\ \A key \in QuestionKeys(questions) : Cardinality(Listings(key)) = 1
        /\ \A category \in DOMAIN categories :
             \A i \in DOMAIN categories[category] :
               categories[category][i] \in QuestionKeys(questions)

\* a questionnaire with questions of every group, in five categories or more
C22_Witness ==
  /\ last.op = "get_questionnaire_for_campaign"
  /\ last.result.total_questions = 13
  /\ Cardinality(DOMAIN last.result.categories) >= 6

(***************************************************************************)
(* Properties of concurrent calls.                                         *)
(***************************************************************************)
\* C23: process_questionnaire calls for one optimization are not mutually
\* excluded.  Whatever the status of the row when a call's analysis ends
\* (analyzing, or completed by another call in the meantime), the call
\* writes its results and status completed over it, and the other calls in
\* flight go on: the row that survives is that of the call persisting last.
C23_LastPersistWins ==
  [][\A t \in TaskIds :
       (/\ tasks[t].pc \in {"analysis", "fetching"}
        /\ tasks[t].kind = "process_questionnaire"
        /\ tasks'[t].pc = "idle"
        /\ last'.status = "completed")
       => /\ optimizations'[tasks[t].oid].status = "completed"
          /\ optimizations'[tasks[t].oid].completed_at = now
          /\ optimizations'[tasks[t].oid].timing_recommendations =
               get_default_timing_recommendations(now)
          /\ optimizations'[tasks[t].oid].questionnaire_responses =
               optimizations[tasks[t].oid].questionnaire_responses
          /\ \A other \in TaskIds \ {t} : tasks'[other] = tasks[other]]_vars

\* both calls had set analyzing, one has written completed, and the other
\* has now written completed over it, at a later hour
C23_Witness ==
  /\ last.op = "process_questionnaire"
  /\ last.status = "completed"
  /\ last.overwrote = "completed"
  /\ optimizations[last.id].status = "completed"
  /\ optimizations[last.id].completed_at > optimizations[last.id].questionnaire_completed_at
  /\ submissions = 2

\* C24: when an analysis completes an optimization, the responses its
\* analyses read are the questionnaire_responses persisted on the row: the
\* results of one submission are not stored with the responses of another.
C24_ResultsMatchResponses ==
  (last.op = "process_questionnaire" /\ last.status = "completed")
  => last.responses = optimizations[last.id].questionnaire_responses

\* C25: each campaign has at most one optimization that is pending or
\* analyzing.
C25_OneActivePerCampaign ==
  \A c \in CampaignIds :
    Cardinality({i \in OptimizationsOf(c) :
                   optimizations[i].status \in {"pending", "analyzing"}}) <= 1

\* C26: once a get_market_intelligence call that missed the cache has
\* returned, the cache holds what it fetched for a TTL, every read of the key
\* within the TTL returns the same data (that of the latest write), and no
\* call started within the TTL is at the Gateway again.
C26_LastWriteWins ==
  \A k \in CacheKeys :
    (gateway_log[k] /= NoTime /\ now < gateway_log[k] + CacheTTLHours)
    => /\ \A cached \in get_cached_intelligence(k[1], k[2]) : cached.hit
       /\ Cardinality(get_cached_intelligence(k[1], k[2])) = 1

\* C27: with every Gateway request answered and every task run, an
\* optimization that is analyzing is eventually completed or failed.
C27_AnalyzingTerminates ==
  \A oid \in 1..MaxOptimizations :
    (oid \in OptimizationIds /\ optimizations[oid].status = "analyzing")
    ~> (oid \in OptimizationIds
        /\ optimizations[oid].status \in {"completed", "failed"})

\* an analysis that went to the Gateway, had a request time out, and ended
\* with the optimization completed
C27_Witness ==
  /\ last.op = "process_questionnaire"
  /\ last.status = "completed"
  /\ last.source = "degraded"
  /\ optimizations[last.id].status = "completed"
  /\ \A t \in TaskIds : tasks[t].pc = "idle"

(***************************************************************************)
(* Properties of reading and applying recommendations.                     *)
(***************************************************************************)
\* C28: every campaign that has an end date has it strictly after its start
\* date, also after a timing recommendation was applied to it.
C28_EndAfterStart ==
  \A c \in CampaignIds :
    campaign_rows[c].end_date /= NoTime
    => campaign_rows[c].end_date > campaign_rows[c].start_date

\* C29: get_recommendations returns the five bundles and the confidence
\* scores of the row only when the optimization is completed; for any other
\* status it returns the status and the message alone; for an unknown id it
\* raises Optimization not found; and it changes no row.
C29_RecommendationsOnlyWhenCompleted ==
  [][(last'.op = "get_recommendations" /\ tasks' = tasks)
     => /\ optimizations' = optimizations
        /\ campaign_rows' = campaign_rows
        /\ campaigns' = campaigns
        /\ IF last'.id \notin OptimizationIds
           THEN last'.error = "Optimization not found"
           ELSE LET optimization == optimizations[last'.id]
                IN /\ last'.error = None
                   /\ IF optimization.status = "completed"
                      THEN /\ DOMAIN last'.result =
                                {"timing", "platforms", "budget", "creative",
                                 "audience", "confidence_scores"}
                           /\ last'.result.timing = optimization.timing_recommendations
                           /\ last'.result.platforms = optimization.platform_recommendations
                           /\ last'.result.budget = optimization.budget_recommendations
                           /\ last'.result.creative = optimization.creative_recommendations
                           /\ last'.result.audience = optimization.audience_recommendations
                           /\ last'.result.confidence_scores.overall =
                                optimization.overall_confidence
                      ELSE last'.result =
                             [status |-> optimization.status,
                              message |-> "Analysis not yet completed"]]_vars

\* the recommendations of a completed optimization were returned
C29_Witness ==
  /\ last.op = "get_recommendations"
  /\ last.id \in OptimizationIds
  /\ optimizations[last.id].status = "completed"
  /\ "timing" \in DOMAIN last.result
  /\ last.result.timing = get_default_timing_recommendations(0)

\* C30: applying recommendations to an optimization that is not completed
\* is rejected and changes neither the campaign nor the optimization;
\* applying to a completed one changes, of the optimization, only
\* recommendations_applied and applied_at.
C30_ApplyOnlyWhenCompleted ==
  [][(last'.op = "apply_recommendations" /\ tasks' = tasks
      /\ last'.id \in OptimizationIds)
     => LET oid == last'.id
        IN /\ optimizations[oid].status /= "completed"
              => /\ last'.error /= None
                 /\ optimizations' = optimizations
                 /\ campaign_rows' = campaign_rows
           /\ optimizations' =
                [optimizations EXCEPT ![oid] =
                   [@ EXCEPT !.recommendations_applied =
                               optimizations'[oid].recommendations_applied,
                             !.applied_at = optimizations'[oid].applied_at]]]_vars

\* the timing and platform bundles of a completed optimization were applied
C30_Witness ==
  /\ last.op = "apply_recommendations"
  /\ last.error = None
  /\ last.id \in OptimizationIds
  /\ optimizations[last.id].status = "completed"
  /\ optimizations[last.id].applied_at /= NoTime
  /\ "timing" \in DOMAIN optimizations[last.id].recommendations_applied
  /\ "platforms" \in DOMAIN optimizations[last.id].recommendations_applied
====
